---- MODULE Spec2Model ----
(***************************************************************************)
(* Model of examples/view.rs: the viewer's start-up (load, window, mesh    *)
(* assembly) and its per-frame closure (panel, viewport, camera, shadow    *)
(* maps, debug shading pass, overlay).                                     *)
(*                                                                         *)
(* Number representation.  f32 coordinates are held as integers (hammer    *)
(* units) and the scaled output positions as exact numerators over         *)
(* ScaleDen, so rounding is not modelled.  u32 values are held as their    *)
(* 32-bit patterns read in two's complement, because TLC's integers are    *)
(* 32 bits wide: a pattern below zero stands for a u32 value of 2^31 or    *)
(* more.                                                                   *)
(***************************************************************************)
EXTENDS Integers, Sequences, FiniteSets, TLC

VARIABLES
    pc,                    \* position in main / in the frame closure
    arg_given,             \* args.next() yielded a path
    files,                 \* state of the three asset files on disk
    load_result,           \* what load(&path) returned
    window,                \* Window::new succeeded
    model,                 \* the vmdl::Model held by main
    mesh,                  \* the CpuMesh returned by model_to_mesh
    panic_at,              \* where the process panicked
    ambient_intensity,     \* ambient.intensity, in hundredths
    directional_intensity, \* in hundredths
    directional,           \* the two DirectionalLights
    shadows_enabled,
    depth_max,
    fov,
    debug_type,
    camera,
    frame,                 \* number of the frame being processed
    host_width,            \* frame_input.viewport.width
    panel_width,
    selection,             \* the mode the operator asked for in this frame's panel
    passes,                \* the shading passes invoked so far, oldest first
    overlay,               \* gui.render() ran in this frame
    steps                  \* statements of the closure executed in this frame

vars == <<pc, arg_given, files, load_result, window, model, mesh,
          panic_at, ambient_intensity, directional_intensity, directional,
          shadows_enabled, depth_max, fov, debug_type, camera, frame,
          host_width, panel_width, selection, passes, overlay, steps>>

sceneVars == <<ambient_intensity, directional_intensity, directional,
               shadows_enabled, depth_max, fov, debug_type, camera>>

-----------------------------------------------------------------------------
(* Bounds *)

MaxVerts == 4
MaxIndices == 6
MaxFrames == 3

-----------------------------------------------------------------------------
(* Mesh assembly: model_to_mesh *)

MinStripLen == 3

\* UNIT_SCALE = 1 / (1.905 * 100) = 2 / ScaleDen
ScaleDen == 381

DisplayScale == 10

NoValue == [none |-> TRUE]

VertexPool ==
    << [position |-> <<1, 10, 3>>,  normal |-> <<0, 1, 0>>],
       [position |-> <<-4, -6, 2>>, normal |-> <<1, 0, 0>>],
       [position |-> <<7, 4, -5>>,  normal |-> <<0, 0, -1>>] >>

\* the vertex lists of length n: the pool taken in turn from its first or second vertex
VertexLists(n) ==
    { [i \in 1..n |-> VertexPool[((i + shift) % Len(VertexPool)) + 1]] :
        shift \in { 2, 3 } }

RECURSIVE Flatten(_)
Flatten(ss) == IF ss = <<>> THEN <<>> ELSE Head(ss) \o Flatten(Tail(ss))

\* iter.max_by(|a, b| a.total_cmp(b)): None on an empty iterator
\* (<<>> is None, <<y>> is Some(y))
MaxBy(ys) ==
    IF ys = <<>> THEN <<>>
    ELSE << CHOOSE y \in { ys[i] : i \in 1..Len(ys) } : \A j \in 1..Len(ys) : ys[j] <= y >>

\* triangle i of a strip: entries i, i+1, i+2 (0-based), the last two swapped when i is odd
StripTriangle(strip, i) ==
    IF i % 2 = 0 THEN << strip[i + 1], strip[i + 2], strip[i + 3] >>
                 ELSE << strip[i + 1], strip[i + 3], strip[i + 2] >>

DecodeStrip(strip) ==
    Flatten([i \in 1..(Len(strip) - 2) |-> StripTriangle(strip, i - 1)])

\* Model::vertex_strip_indices(): one index sequence per strip
vertex_strip_indices(m) == [k \in 1..Len(m.strips) |-> DecodeStrip(m.strips[k])]

\* `index as u32`: the low 32 bits of the usize, taken 16 bits at a time
AsU32(index) == (index % 65536) + 65536 * ((index \div 65536) % 65536)

MeshPositionsDropLast(vs, maxY) ==
    [i \in 1..(Len(vs) - 1) |->
        << 2 * vs[i].position[1] * DisplayScale,
           (2 * vs[i].position[2] - maxY) * DisplayScale,
           2 * vs[i].position[3] * DisplayScale >>]

\* (vertex.position + offset) * UNIT_SCALE * 10.0 with offset = (0, -maxY / 2, 0),
\* as numerators over ScaleDen
MeshPositions(vs, maxY) ==
    [i \in 1..Len(vs) |->
        << 2 * vs[i].position[1] * DisplayScale,
           (2 * vs[i].position[2] - maxY) * DisplayScale,
           2 * vs[i].position[3] * DisplayScale >>]

MeshNormalsSkipFirst(vs) == [i \in 1..(Len(vs) - 1) |-> vs[i + 1].normal]

MeshNormals(vs) == [i \in 1..Len(vs) |-> vs[i].normal]

MeshIndicesReversed(stripIndices) ==
    Flatten([k \in 1..Len(stripIndices) |->
        [j \in 1..Len(stripIndices[Len(stripIndices) + 1 - k]) |->
            AsU32(stripIndices[Len(stripIndices) + 1 - k][j])]])

\* flat_map(|strip| strip.map(|index| index as u32)).collect()
MeshIndices(stripIndices) ==
    Flatten([k \in 1..Len(stripIndices) |->
        [j \in 1..Len(stripIndices[k]) |-> AsU32(stripIndices[k][j])]])

\* the CpuMesh built from a model with at least one vertex
model_to_mesh(m) ==
    LET maxY == MaxBy([i \in 1..Len(m.vertices) |-> m.vertices[i].position[2]])[1]
    IN  [positions |-> MeshPositions(m.vertices, maxY),
         normals   |-> MeshNormals(m.vertices),
         indices   |-> MeshIndices(vertex_strip_indices(m))]

-----------------------------------------------------------------------------
(* Start-up: main, load *)

LoadOrder == << "mdl", "vtx", "vvd" >>

FileStatus == { "ok", "missing", "malformed" }

\* the step of load() at which a file in a given state makes `?` return
FileError(status) == IF status = "missing" THEN "IoError" ELSE "ParseError"

FirstBad(fs) ==
    IF \E k \in 1..Len(LoadOrder) : fs[LoadOrder[k]] # "ok"
    THEN CHOOSE k \in 1..Len(LoadOrder) :
            /\ fs[LoadOrder[k]] # "ok"
            /\ \A j \in 1..(k - 1) : fs[LoadOrder[j]] = "ok"
    ELSE 0

loadIgnoringVvd(fs) ==
    IF fs["mdl"] # "ok" THEN FileError(fs["mdl"])
    ELSE IF fs["vtx"] # "ok" THEN FileError(fs["vtx"])
    ELSE "Ok"

\* fs::read + read of the .mdl, then of the .dx90.vtx, then of the .vvd
load(fs) ==
    IF FirstBad(fs) = 0 THEN "Ok" ELSE FileError(fs[LoadOrder[FirstBad(fs)]])

EmptyModel == [vertices |-> <<>>, strips |-> <<>>]

QuadModel ==
    [vertices |-> [i \in 1..4 |-> VertexPool[((i + 2) % Len(VertexPool)) + 1]],
     strips   |-> << <<0, 1, 2, 3>> >>]

\* models that Model::from_parts hands to main
ViewerModels == { EmptyModel, QuadModel }

WindowMinWidth == 512

\* widths the host reports for the window's viewport: the minimum width of the
\* window settings, and 0 for a window that has no area (minimized)
HostWidths == { 0, WindowMinWidth }

InitialFov == 90

InitialCameraPosition == <<2, 2, 5>>

Light(intensity) == [intensity |-> intensity, shadow_map |-> <<>>]

Init ==
    /\ pc = "args"
    /\ arg_given \in BOOLEAN
    /\ files \in [{ "mdl", "vtx", "vvd" } -> FileStatus]
    /\ load_result = "NotRun"
    /\ window = FALSE
    /\ model = NoValue
    /\ mesh = NoValue
    /\ panic_at = ""
    /\ ambient_intensity = 20
    /\ directional_intensity = 100
    /\ directional = << Light(100), Light(100) >>
    /\ shadows_enabled = TRUE
    /\ depth_max = 30
    /\ fov = 60
    /\ debug_type = "NONE"
    /\ camera = NoValue
    /\ frame = 0
    /\ host_width = 0
    /\ panel_width = 0
    /\ selection = "NoChoice"
    /\ passes = <<>>
    /\ overlay = FALSE
    /\ steps = <<>>

Panic(where) ==
    /\ pc' = "panicked"
    /\ panic_at' = where

\* args.next().expect("No demo file provided")
ParseArgs ==
    /\ pc = "args"
    /\ IF arg_given
       THEN pc' = "load" /\ UNCHANGED panic_at
       ELSE Panic("expect_arg")
    /\ UNCHANGED <<arg_given, files, load_result, window, model, mesh,
                   sceneVars, frame, host_width, panel_width, selection, passes,
                   overlay, steps>>

\* load(&path).unwrap()
Load ==
    /\ pc = "load"
    /\ load_result' = load(files)
    /\ IF load(files) = "Ok"
       THEN /\ \E m \in ViewerModels : model' = m
            /\ pc' = "window"
            /\ UNCHANGED panic_at
       ELSE /\ Panic("load")
            /\ UNCHANGED model
    /\ UNCHANGED <<arg_given, files, window, mesh, sceneVars, frame,
                   host_width, panel_width, selection, passes, overlay, steps>>

\* Window::new(..).unwrap(), window.gl(), Camera::new_perspective, OrbitControl, GUI
CreateWindow ==
    /\ pc = "window"
    /\ \/ /\ window' = TRUE
          /\ \E w \in HostWidths :
                camera' = [viewport |-> [x |-> 0, width |-> w],
                           fov      |-> InitialFov,
                           position |-> InitialCameraPosition]
          /\ pc' = "model_to_mesh"
          /\ UNCHANGED panic_at
       \/ /\ Panic("window")
          /\ UNCHANGED <<window, camera>>
    /\ UNCHANGED <<arg_given, files, load_result, model, mesh,
                   ambient_intensity, directional_intensity, directional,
                   shadows_enabled, depth_max, fov, debug_type, frame, host_width,
                   panel_width, selection, passes, overlay, steps>>

\* let cpu_mesh = model_to_mesh(&model); the unwrap of max_by panics on no vertices
ModelToMesh ==
    /\ pc = "model_to_mesh"
    /\ IF MaxBy([i \in 1..Len(model.vertices) |-> model.vertices[i].position[2]]) = <<>>
       THEN /\ Panic("model_to_mesh")
            /\ UNCHANGED mesh
       ELSE /\ mesh' = model_to_mesh(model)
            /\ pc' = "new_model"
            /\ UNCHANGED panic_at
    /\ UNCHANGED <<arg_given, files, load_result, window, model,
                   sceneVars, frame, host_width, panel_width, selection, passes,
                   overlay, steps>>

-----------------------------------------------------------------------------
(* The frame closure passed to window.render_loop *)

DebugType == { "POSITION", "NORMAL", "COLOR", "DEPTH", "ORM", "UV", "NONE" }

\* the alternatives of the radio_value calls, in call order
RadioOrder == << "NONE", "POSITION", "NORMAL", "COLOR", "DEPTH", "ORM" >>

\* positions the two intensity sliders can be left at, in hundredths
IntensityStops == { 0 }

DepthStops == { 1 }

FovStops == { 45 }

\* gui_context.used_size().x, an f32, in tenths
UsedSizes == { -10, 2005, 6000 }

\* positions the orbit control can move the camera to
CameraPositions == { InitialCameraPosition, <<0, 0, 100>> }

Closure ==
    << "gui_update", "set_viewport", "handle_events", "set_projection",
       "shadow_maps", "render", "gui_render", "frame_output" >>

IndexOf(seq, x) == CHOOSE k \in 1..Len(seq) : seq[k] = x

StepAfterShadeFirst(p) ==
    CASE p = "set_projection" -> "render"
      [] p = "render"         -> "shadow_maps"
      [] p = "shadow_maps"    -> "gui_render"
      [] OTHER                -> Closure[IndexOf(Closure, p) + 1]

\* the statement of the closure that follows statement p
StepAfter(p) == Closure[IndexOf(Closure, p) + 1]

\* `x as u32` of an f32 given in tenths: toward zero, negatives to 0
F32AsU32(tenths) == IF tenths < 0 THEN 0 ELSE tenths \div 10

\* unsigned order of two u32 patterns
U32Less(a, b) == IF (a < 0) = (b < 0) THEN a < b ELSE b < 0

\* a - b modulo 2^32, on u32 patterns
WrappingSub(a, b) == a - b

\* `panel_width as i32`: the same 32 bits
U32AsI32(u) == u

\* ui.checkbox(&mut checked, ..): a click flips the value
Checkbox(checked, clicked) == IF clicked THEN ~checked ELSE checked

ClearNever(lights, clicked, enabled) == lights

\* if ..clicked() { if !shadows_enabled { clear_shadow_map() on both } }
ClearOnDisable(lights, clicked, enabled) ==
    IF clicked /\ ~enabled
    THEN [i \in 1..Len(lights) |-> [lights[i] EXCEPT !.shadow_map = <<>>]]
    ELSE lights

\* ui.radio_value(&mut current, alternative, ..)
RadioValue(current, alternative, clicked) ==
    IF clicked /\ current # alternative THEN alternative ELSE current

RECURSIVE RadioButtons(_, _, _)
RadioButtons(current, choice, k) ==
    IF k > Len(RadioOrder) THEN current
    ELSE RadioButtons(RadioValue(current, RadioOrder[k], choice = RadioOrder[k]),
                      choice, k + 1)

DispatchDefaultDepth(dt, dmax) ==
    CASE dt = "NORMAL"   -> [pass |-> "NormalMaterial",   from |-> "ph_material", max_distance |-> <<>>]
      [] dt = "DEPTH"    -> [pass |-> "DepthMaterial",    from |-> "default",     max_distance |-> <<>>]
      [] dt = "ORM"      -> [pass |-> "ORMMaterial",      from |-> "ph_material", max_distance |-> <<>>]
      [] dt = "POSITION" -> [pass |-> "PositionMaterial", from |-> "default",     max_distance |-> <<>>]
      [] dt = "UV"       -> [pass |-> "UVMaterial",       from |-> "default",     max_distance |-> <<>>]
      [] dt = "COLOR"    -> [pass |-> "ColorMaterial",    from |-> "ph_material", max_distance |-> <<>>]
      [] dt = "NONE"     -> [pass |-> "PhysicalMaterial", from |-> "model",       max_distance |-> <<>>]

\* match debug_type { .. }: the material of the one render call
Dispatch(dt, dmax) ==
    CASE dt = "NORMAL"   -> [pass |-> "NormalMaterial",   from |-> "ph_material", max_distance |-> <<>>]
      [] dt = "DEPTH"    -> [pass |-> "DepthMaterial",    from |-> "default",     max_distance |-> <<dmax>>]
      [] dt = "ORM"      -> [pass |-> "ORMMaterial",      from |-> "ph_material", max_distance |-> <<>>]
      [] dt = "POSITION" -> [pass |-> "PositionMaterial", from |-> "default",     max_distance |-> <<>>]
      [] dt = "UV"       -> [pass |-> "UVMaterial",       from |-> "default",     max_distance |-> <<>>]
      [] dt = "COLOR"    -> [pass |-> "ColorMaterial",    from |-> "ph_material", max_distance |-> <<>>]
      [] dt = "NONE"     -> [pass |-> "PhysicalMaterial", from |-> "model",       max_distance |-> <<>>]

Advance(p) ==
    /\ pc' = StepAfter(p)
    /\ steps' = Append(steps, p)
    /\ UNCHANGED panic_at

\* three_d::Model::new(..)?, the lights, the loop's locals, the first frame_input
BeginLoop ==
    /\ pc = "new_model"
    /\ \/ /\ pc' = "gui_update"
          /\ frame' = 1
          /\ \E w \in HostWidths : host_width' = w /\ panel_width' = w
       \/ /\ pc' = "returned_err"
          /\ UNCHANGED <<frame, host_width, panel_width>>
    /\ UNCHANGED <<arg_given, files, load_result, window, model, mesh,
                   panic_at, sceneVars, selection, passes, overlay, steps>>

\* what the pointer does to the panel in one frame: it acts on at most one widget
Interactions ==
    { [widget |-> "none", value |-> 0] }
    \cup { [widget |-> "ambient", value |-> v] : v \in IntensityStops }
    \cup { [widget |-> "directional", value |-> v] : v \in IntensityStops }
    \cup { [widget |-> "shadows", value |-> 0] }
    \cup { [widget |-> "radio", value |-> m] : m \in DebugType }
    \cup { [widget |-> "depth", value |-> v] : v \in DepthStops }
    \cup { [widget |-> "fov", value |-> v] : v \in FovStops }

\* Slider::new(&mut value, ..): a drag leaves the value at the stop
Slider(value, act, name) == IF act.widget = name THEN act.value ELSE value

\* gui.update(.., |gui_context| { side panel; panel_width = used_size().x as u32 })
GuiUpdate ==
    /\ pc = "gui_update"
    /\ \E act \in Interactions :
          LET clicked == act.widget = "shadows"
              enabled == Checkbox(shadows_enabled, clicked)
              intensity == Slider(directional_intensity, act, "directional")
          IN  /\ ambient_intensity' = Slider(ambient_intensity, act, "ambient")
              /\ directional_intensity' = intensity
              /\ shadows_enabled' = enabled
              /\ directional' =
                    ClearOnDisable(
                        [i \in 1..2 |-> [directional[i] EXCEPT !.intensity = intensity]],
                        clicked, enabled)
              /\ selection' = IF act.widget = "radio" THEN act.value ELSE "NoChoice"
              /\ debug_type' =
                    RadioButtons(debug_type,
                                 IF act.widget = "radio" THEN act.value ELSE "NoChoice", 1)
              /\ depth_max' = Slider(depth_max, act, "depth")
              /\ fov' = Slider(fov, act, "fov")
    /\ \E used \in UsedSizes : panel_width' = F32AsU32(used)
    /\ Advance("gui_update")
    /\ UNCHANGED <<arg_given, files, load_result, window, model, mesh,
                   camera, frame, host_width, passes, overlay>>

\* let viewport = Viewport { x, y, width: viewport.width - panel_width, height };
\* camera.set_viewport(viewport).  A subtraction that wraps panics in a build
\* with overflow checks and wraps in one without.
SetViewport ==
    /\ pc = "set_viewport"
    /\ \/ /\ U32Less(host_width, panel_width)
          /\ Panic("viewport_width")
          /\ UNCHANGED <<camera, steps>>
       \/ /\ camera' = [camera EXCEPT !.viewport =
                          [x     |-> U32AsI32(panel_width),
                           width |-> WrappingSub(host_width, panel_width)]]
          /\ Advance("set_viewport")
    /\ UNCHANGED <<arg_given, files, load_result, window, model, mesh,
                   ambient_intensity, directional_intensity, directional,
                   shadows_enabled, depth_max, fov, debug_type, frame, host_width,
                   panel_width, selection, passes, overlay>>

\* control.handle_events(&mut camera, &mut frame_input.events)
HandleEvents ==
    /\ pc = "handle_events"
    /\ \E p \in CameraPositions : camera' = [camera EXCEPT !.position = p]
    /\ Advance("handle_events")
    /\ UNCHANGED <<arg_given, files, load_result, window, model, mesh,
                   ambient_intensity, directional_intensity, directional,
                   shadows_enabled, depth_max, fov, debug_type, frame, host_width,
                   panel_width, selection, passes, overlay>>

\* camera.set_perspective_projection(degrees(fov), ..)
SetProjection ==
    /\ pc = "set_projection"
    /\ camera' = [camera EXCEPT !.fov = fov]
    /\ Advance("set_projection")
    /\ UNCHANGED <<arg_given, files, load_result, window, model, mesh,
                   ambient_intensity, directional_intensity, directional,
                   shadows_enabled, depth_max, fov, debug_type, frame, host_width,
                   panel_width, selection, passes, overlay>>

\* if shadows_enabled { generate_shadow_map on both lights }
ShadowMaps ==
    /\ pc = "shadow_maps"
    /\ directional' =
          IF shadows_enabled
          THEN [i \in 1..2 |-> [directional[i] EXCEPT !.shadow_map = <<frame>>]]
          ELSE directional
    /\ Advance("shadow_maps")
    /\ UNCHANGED <<arg_given, files, load_result, window, model, mesh,
                   ambient_intensity, directional_intensity, shadows_enabled,
                   depth_max, fov, debug_type, camera, frame, host_width,
                   panel_width, selection, passes, overlay>>

\* screen.clear(..); match debug_type { .. } with lights = [ambient, directional[0], [1]]
Render ==
    /\ pc = "render"
    /\ passes' = Append(passes,
          [frame       |-> frame,
           mode        |-> debug_type,
           depth_max   |-> depth_max,
           material    |-> Dispatch(debug_type, depth_max),
           shadows     |-> shadows_enabled,
           shadow_maps |-> [i \in 1..2 |-> directional[i].shadow_map]])
    /\ Advance("render")
    /\ UNCHANGED <<arg_given, files, load_result, window, model, mesh,
                   sceneVars, frame, host_width, panel_width, selection, overlay>>

\* .write(|| gui.render())
GuiRender ==
    /\ pc = "gui_render"
    /\ overlay' = TRUE
    /\ Advance("gui_render")
    /\ UNCHANGED <<arg_given, files, load_result, window, model, mesh,
                   sceneVars, frame, host_width, panel_width, selection, passes>>

\* FrameOutput::default(), and the host calls the closure for the next frame
NextFrame ==
    /\ pc = "frame_output"
    /\ frame < MaxFrames
    /\ frame' = frame + 1
    /\ \E w \in HostWidths : host_width' = w /\ panel_width' = w
    /\ selection' = "NoChoice"
    /\ overlay' = FALSE
    /\ steps' = <<>>
    /\ pc' = Closure[1]
    /\ UNCHANGED <<arg_given, files, load_result, window, model, mesh,
                   panic_at, sceneVars, passes>>

\* FrameOutput::default(), the host ends the loop and main returns Ok(())
Exit ==
    /\ pc = "frame_output"
    /\ pc' = "exited"
    /\ UNCHANGED <<arg_given, files, load_result, window, model, mesh,
                   panic_at, sceneVars, frame, host_width, panel_width, selection,
                   passes, overlay, steps>>

Next ==
    \/ ParseArgs
    \/ Load
    \/ CreateWindow
    \/ ModelToMesh
    \/ BeginLoop
    \/ GuiUpdate
    \/ SetViewport
    \/ HandleEvents
    \/ SetProjection
    \/ ShadowMaps
    \/ Render
    \/ GuiRender
    \/ NextFrame
    \/ Exit

Spec == Init /\ [][Next]_vars

\* the models over the vertices v: no strip, one strip, or two, with at most
\* MaxIndices entries in all, every entry an offset into v
ModelOver(v) ==
    \/ model = [vertices |-> v, strips |-> <<>>]
    \/ \E l \in MinStripLen..MaxIndices :
          \E s \in [1..l -> 0..(Len(v) - 1)] :
             model = [vertices |-> v, strips |-> <<s>>]
    \/ \E l1 \in MinStripLen..MaxIndices :
          \E l2 \in MinStripLen..(MaxIndices - l1) :
             \E s \in [1..l1 -> 0..(Len(v) - 1)] :
                \E t \in [1..l2 -> 0..(Len(v) - 1)] :
                   model = [vertices |-> v, strips |-> <<s, t>>]

\* model_to_mesh on its own: main stands right before line 65 with any model
InitMesh ==
    /\ pc = "model_to_mesh"
    /\ arg_given = TRUE
    /\ files = [f \in { "mdl", "vtx", "vvd" } |-> "ok"]
    /\ load_result = "Ok"
    /\ window = TRUE
    /\ \E n \in 0..MaxVerts : \E v \in VertexLists(n) : ModelOver(v)
    /\ mesh = NoValue
    /\ panic_at = ""
    /\ ambient_intensity = 20
    /\ directional_intensity = 100
    /\ directional = << Light(100), Light(100) >>
    /\ shadows_enabled = TRUE
    /\ depth_max = 30
    /\ fov = 60
    /\ debug_type = "NONE"
    /\ camera = [viewport |-> [x |-> 0, width |-> WindowMinWidth],
                 fov      |-> InitialFov,
                 position |-> InitialCameraPosition]
    /\ frame = 0
    /\ host_width = 0
    /\ panel_width = 0
    /\ selection = "NoChoice"
    /\ passes = <<>>
    /\ overlay = FALSE
    /\ steps = <<>>

SpecMesh == InitMesh /\ [][ModelToMesh]_vars

-----------------------------------------------------------------------------
(* Properties of mesh assembly, checked under SpecMesh *)

RECURSIVE TrianglesBefore(_, _)
TrianglesBefore(strips, k) ==
    IF k <= 1 THEN 0 ELSE (Len(strips[k - 1]) - 2) + TrianglesBefore(strips, k - 1)

Assembled == mesh # NoValue

\* C1: every strip of length n >= 3 becomes n-2 triangles, triangle i (0-based)
\* being the strip entries i, i+1, i+2 with the last two exchanged when i is odd,
\* and the triangles of all strips follow one another in strip order; the single
\* strip [0,1,2,3] gives the index list [0,1,2, 1,3,2].
StripsDecodedInOrder ==
    /\ model_to_mesh(QuadModel).indices = <<0, 1, 2, 1, 3, 2>>
    /\ Assembled =>
          /\ Len(mesh.indices) = 3 * TrianglesBefore(model.strips, Len(model.strips) + 1)
          /\ \A k \in 1..Len(model.strips) :
                \A i \in 0..(Len(model.strips[k]) - 3) :
                   LET at == 3 * (TrianglesBefore(model.strips, k) + i)
                       s  == model.strips[k]
                   IN  /\ mesh.indices[at + 1] = s[i + 1]
                       /\ mesh.indices[at + 2] = IF i % 2 = 1 THEN s[i + 3] ELSE s[i + 2]
                       /\ mesh.indices[at + 3] = IF i % 2 = 1 THEN s[i + 2] ELSE s[i + 3]

QuadStripAssembled ==
    /\ Assembled
    /\ model.strips = << <<0, 1, 2, 3>> >>
    /\ mesh.indices = <<0, 1, 2, 1, 3, 2>>

\* C5: for a model with at least one vertex, strips of length >= 3 and only valid
\* vertex offsets in them, the index list has a length divisible by 3 and every
\* index is smaller than the number of output positions.
IndicesWellFormed ==
    ( /\ Assembled
      /\ Len(model.vertices) > 0
      /\ \A k \in 1..Len(model.strips) :
            /\ Len(model.strips[k]) >= MinStripLen
            /\ \A j \in 1..Len(model.strips[k]) :
                  model.strips[k][j] \in 0..(Len(model.vertices) - 1) )
    => /\ Len(mesh.indices) % 3 = 0
       /\ \A j \in 1..Len(mesh.indices) :
             mesh.indices[j] >= 0 /\ mesh.indices[j] < Len(mesh.positions)

TwoStripsReachLastVertex ==
    /\ Assembled
    /\ Len(model.strips) = 2
    /\ Len(mesh.indices) = 6
    /\ \E j \in 1..Len(mesh.indices) : mesh.indices[j] = Len(mesh.positions) - 1

\* C8: for a model with at least one vertex the mesh has one position and one
\* normal per vertex, in vertex order, whatever the strips are.
OnePositionAndNormalPerVertex ==
    (Assembled /\ Len(model.vertices) > 0) =>
       /\ Len(mesh.positions) = Len(model.vertices)
       /\ Len(mesh.normals) = Len(model.vertices)
       /\ \A i \in 1..Len(model.vertices) :
             /\ mesh.normals[i] = model.vertices[i].normal
             /\ mesh.positions[i][1] = 2 * DisplayScale * model.vertices[i].position[1]
             /\ mesh.positions[i][3] = 2 * DisplayScale * model.vertices[i].position[3]

FourVerticesTwoStrips ==
    /\ Assembled
    /\ Len(model.vertices) = 4
    /\ Len(model.strips) = 2
    /\ Len(mesh.positions) = 4
    /\ Len(mesh.normals) = 4

-----------------------------------------------------------------------------
(* Properties of start-up, checked under Spec *)

AfterModelToMesh == model # NoValue /\ pc \notin { "window", "model_to_mesh" }

\* C6: assembling a model with no vertices fails with an EmptyModelError value that
\* the caller receives, not by ending the process abruptly; no mesh is produced and
\* the frame loop is never entered.
EmptyModelReportedAsError ==
    (AfterModelToMesh /\ Len(model.vertices) = 0) =>
       /\ pc # "panicked"
       /\ mesh = NoValue
       /\ frame = 0

LoadRan == load_result # "NotRun"

AllFilesOk == \A f \in DOMAIN files : files[f] = "ok"

\* C7 as stated: with the primary file readable and a sibling file missing, loading
\* fails with an I/O error and no window is created; a window is created only
\* after all three files were read and parsed.
MissingSiblingIsIoError ==
    /\ window => AllFilesOk
    /\ ( /\ LoadRan
         /\ files["mdl"] # "missing"
         /\ (files["vtx"] = "missing" \/ files["vvd"] = "missing") )
       => (load_result = "IoError" /\ ~window)

\* C7 amended: a missing sibling file makes loading fail and the program stop
\* before a window is created; the failure is an I/O error when every file read
\* before the missing one was read and parsed successfully, and otherwise the parse
\* error of the earlier file; a window is created only after all three files were
\* read and parsed.
MissingSiblingStopsBeforeWindow ==
    /\ window => (AllFilesOk /\ load_result = "Ok")
    /\ \A k \in 2..Len(LoadOrder) :
          (LoadRan /\ files["mdl"] # "missing" /\ files[LoadOrder[k]] = "missing")
          => /\ ~window
             /\ pc = "panicked"
             /\ panic_at = "load"
             /\ load_result \in { "IoError", "ParseError" }
             /\ (\A j \in 1..(k - 1) : files[LoadOrder[j]] = "ok")
                   => load_result = "IoError"
             /\ load_result = "ParseError"
                   => \E j \in 1..(k - 1) : files[LoadOrder[j]] = "malformed"

VvdMissingPanicked ==
    /\ pc = "panicked"
    /\ files = [mdl |-> "ok", vtx |-> "ok", vvd |-> "missing"]
    /\ load_result = "IoError"
    /\ ~window

-----------------------------------------------------------------------------
(* Properties of the frame closure, checked under Spec *)

PassesOf(f) == { k \in 1..Len(passes) : passes[k].frame = f }

\* C2: whatever the operator does to the Shadows checkbox, the shadow map a
\* directional light holds during a frame's shading pass was generated in that
\* same frame when shadows are enabled, and is absent when they are disabled.
ShadowMapsNeverStale ==
    /\ pc = "render" =>
          \A i \in 1..2 :
             directional[i].shadow_map = IF shadows_enabled THEN <<frame>> ELSE <<>>
    /\ \A k \in 1..Len(passes) :
          \A i \in 1..2 :
             passes[k].shadow_maps[i] =
                IF passes[k].shadows THEN << passes[k].frame >> ELSE <<>>

ShadowsOffThenOnAgain ==
    /\ Len(passes) = 3
    /\ passes[1].shadows /\ passes[1].shadow_maps = << <<1>>, <<1>> >>
    /\ ~passes[2].shadows /\ passes[2].shadow_maps = << <<>>, <<>> >>
    /\ passes[3].shadows /\ passes[3].shadow_maps = << <<3>>, <<3>> >>

\* C3: each of the seven modes becomes the active one when the operator selects
\* it in the panel, from any active mode.
SelectedModeBecomesActive ==
    selection # "NoChoice" => debug_type = selection

\* the pass the table assigns to a mode
PassOfMode(m, d) ==
    CASE m = "NONE"     -> [pass |-> "PhysicalMaterial", from |-> "model",       max_distance |-> <<>>]
      [] m = "POSITION" -> [pass |-> "PositionMaterial", from |-> "default",     max_distance |-> <<>>]
      [] m = "NORMAL"   -> [pass |-> "NormalMaterial",   from |-> "ph_material", max_distance |-> <<>>]
      [] m = "COLOR"    -> [pass |-> "ColorMaterial",    from |-> "ph_material", max_distance |-> <<>>]
      [] m = "DEPTH"    -> [pass |-> "DepthMaterial",    from |-> "default",     max_distance |-> <<d>>]
      [] m = "ORM"      -> [pass |-> "ORMMaterial",      from |-> "ph_material", max_distance |-> <<>>]
      [] m = "UV"       -> [pass |-> "UVMaterial",       from |-> "default",     max_distance |-> <<>>]

\* C4: a frame invokes exactly one shading pass, the one the table assigns to the
\* mode active at render time, the depth pass with the current depth_max; no frame
\* that is rendered invokes two passes or none.
OnePassPerFrame ==
    /\ \A k \in 1..Len(passes) :
          passes[k].material = PassOfMode(passes[k].mode, passes[k].depth_max)
    /\ \A f \in 1..MaxFrames :
          Cardinality(PassesOf(f)) =
             IF f < frame \/ (f = frame /\ "render" \in { steps[j] : j \in 1..Len(steps) })
             THEN 1 ELSE 0
    /\ ("render" \in { steps[j] : j \in 1..Len(steps) }) =>
          \A k \in PassesOf(frame) :
             passes[k].mode = debug_type /\ passes[k].depth_max = depth_max

DepthPassWithChosenRange ==
    \E k \in 1..Len(passes) :
       /\ passes[k].mode = "DEPTH"
       /\ passes[k].material = [pass |-> "DepthMaterial", from |-> "default",
                                max_distance |-> <<1>>]
       /\ pc = "frame_output"

IsPrefix(s, t) == Len(s) <= Len(t) /\ \A k \in 1..Len(s) : s[k] = t[k]

\* C9 as stated: panel, viewport, projection from the field of view, orbit
\* deltas, and only then shadow maps, shading pass, overlay.
ProjectionBeforeOrbit ==
    IsPrefix(steps, << "gui_update", "set_viewport", "set_projection", "handle_events",
                       "shadow_maps", "render", "gui_render" >>)

RenderPhase == { "render", "gui_render", "frame_output" }

\* C9 amended: in every tick the steps run in the order panel, viewport, orbit
\* deltas, projection from the field of view, and only then shadow maps, shading
\* pass, overlay; once shadow-map regeneration of a tick is over nothing of the
\* scene state or the camera is written until the tick ends, and regeneration
\* itself writes only the lights' shadow maps.
OrbitBeforeProjectionThenRender ==
    /\ [](IsPrefix(steps, << "gui_update", "set_viewport", "handle_events",
                             "set_projection", "shadow_maps", "render", "gui_render" >>))
    /\ [][ (pc \in RenderPhase /\ pc' \in RenderPhase \cup { "exited" })
              => UNCHANGED sceneVars ]_vars
    /\ [][ pc = "shadow_maps" =>
              UNCHANGED << ambient_intensity, directional_intensity, shadows_enabled,
                           depth_max, fov, debug_type, camera,
                           directional[1].intensity, directional[2].intensity >> ]_vars

WholeTickRan ==
    /\ steps = << "gui_update", "set_viewport", "handle_events", "set_projection",
                  "shadow_maps", "render", "gui_render" >>
    /\ overlay
    /\ frame = 2

\* C10: the width host viewport minus panel never wraps: the panel width used is
\* never greater than the host viewport width, the resulting width lies in
\* 0..host width and the x offset is the panel width.
ViewportWidthNeverWraps ==
    /\ pc = "set_viewport" => ~U32Less(host_width, panel_width)
    /\ panic_at # "viewport_width"
    /\ ("set_viewport" \in { steps[j] : j \in 1..Len(steps) }) =>
          /\ camera.viewport.x = panel_width
          /\ ~U32Less(camera.viewport.width, 0)
          /\ ~U32Less(host_width, camera.viewport.width)

====
